---- MODULE Spec2Model ----
(***************************************************************************)
(* VizzAI front end (src/frontend/src/App.js): the App component's state,  *)
(* its handlers (loadVideo, generateAITimestamps, askQuestion, the input   *)
(* callbacks) and its pure helpers (getVideoId, parseTimeToSeconds,        *)
(* formatTime, createTimestampsFromTranscript, formatText).                *)
(*                                                                         *)
(* JavaScript strings are TLA+ strings; TLC evaluates Len, SubSeq and \o   *)
(* on them, so every conversion below works on the characters, as the      *)
(* code's regular expressions and template literals do.                    *)
(***************************************************************************)
EXTENDS Integers, Sequences, FiniteSets, Bags, TLC

VARIABLES
    videoUrl, question, messages, loading, videoId, videoTitle, timestamps,
    error,          \* the useState cells of App (lines 9-16)
    loadCalls,      \* bag of the loadVideo invocations awaiting /process-youtube
    chapterCalls,   \* bag of the generateAITimestamps invocations awaiting /smart-question
    askCalls,       \* askQuestion invocations awaiting /smart-question
    nLoads,         \* number of /process-youtube requests made
    nAsks,          \* number of question requests made
    lastLoad,       \* how the latest loadVideo to settle ended: none / ok / failed
    lastAsk,        \* how the latest askQuestion to settle ended: none / ok / failed
    input, output,  \* argument and result of a helper under test
    notifications,  \* the notifications cell of App (line 17)
    now,            \* Date.now(), in milliseconds
    timers,         \* the setTimeout callbacks of showNotification not yet run
    handles,        \* the ids showNotification returned to callers still holding them
    nShown,         \* number of showNotification calls made
    requests,       \* the server's process_video calls, in order of arrival
    cache           \* the server's VideoCache: url -> entry

noteVars == <<notifications, now, timers, handles, nShown>>

serverVars == <<requests, cache>>

vars == <<videoUrl, question, messages, loading, videoId, videoTitle, timestamps,
          error, loadCalls, chapterCalls, askCalls, nLoads, nAsks, lastLoad,
          lastAsk, input, output, noteVars, serverVars>>

appVars == <<videoUrl, question, messages, loading, videoId, videoTitle,
             timestamps, error, loadCalls, chapterCalls, askCalls, nLoads, nAsks,
             lastLoad, lastAsk>>

-----------------------------------------------------------------------------
(* Characters and strings *)

Ch(s, i) == SubSeq(s, i, i)

\* The characters of s from index a to index b, clipped to the string.
Slice(s, a, b) ==
    LET lo == IF a < 1 THEN 1 ELSE a
        hi == IF b > Len(s) THEN Len(s) ELSE b
    IN  IF lo > hi THEN "" ELSE SubSeq(s, lo, hi)

Digits == {"0", "1", "2", "3", "4", "5", "6", "7", "8", "9"}

IsDigit(c) == c \in Digits

DigitVal(c) ==
    CASE c = "0" -> 0 [] c = "1" -> 1 [] c = "2" -> 2 [] c = "3" -> 3
      [] c = "4" -> 4 [] c = "5" -> 5 [] c = "6" -> 6 [] c = "7" -> 7
      [] c = "8" -> 8 [] c = "9" -> 9

DigitChar(d) == Ch("0123456789", d + 1)

AllDigits(s) == \A i \in 1..Len(s) : IsDigit(Ch(s, i))

\* The decimal value of a string of digits ("" is 0).
RECURSIVE DigitsVal(_)
DigitsVal(s) ==
    IF s = "" THEN 0
    ELSE 10 * DigitsVal(SubSeq(s, 1, Len(s) - 1)) + DigitVal(Ch(s, Len(s)))

\* Number.prototype.toString of a non-negative integer.
RECURSIVE NatToString(_)
NatToString(n) ==
    IF n < 10 THEN DigitChar(n)
    ELSE NatToString(n \div 10) \o DigitChar(n % 10)

\* String.prototype.padStart(2, '0').
PadStart2(s) == IF Len(s) >= 2 THEN s ELSE IF Len(s) = 1 THEN "0" \o s ELSE "00"

\* String.prototype.split(sep) for a one-character separator.
RECURSIVE SplitFrom(_, _, _)
SplitFrom(s, sep, from) ==
    IF \E i \in from..Len(s) : Ch(s, i) = sep
    THEN LET i == CHOOSE i \in from..Len(s) :
                      Ch(s, i) = sep /\ \A k \in from..(i - 1) : Ch(s, k) # sep
         IN  <<Slice(s, from, i - 1)>> \o SplitFrom(s, sep, i + 1)
    ELSE <<Slice(s, from, Len(s))>>

Split(s, sep) == SplitFrom(s, sep, 1)

\* Number(str) on the strings the helpers pass it: digit strings and "".
\* Anything else is NaN; NaN is the one negative value of the model, and
\* parseTimeToSeconds propagates it as JavaScript arithmetic does.
NaN == 0 - 1

NumberOf(s) == IF AllDigits(s) THEN DigitsVal(s) ELSE NaN

-----------------------------------------------------------------------------
(* parseTimeToSeconds and formatTime *)

parseTimeToSeconds(timeStr) ==
    LET parts == [i \in 1..Len(Split(timeStr, ":")) |-> NumberOf(Split(timeStr, ":")[i])]
    IN  IF \E i \in 1..Len(parts) : parts[i] = NaN /\ Len(parts) \in {2, 3} THEN NaN
        ELSE IF Len(parts) = 3 THEN parts[1] * 3600 + parts[2] * 60 + parts[3]
        ELSE IF Len(parts) = 2 THEN parts[1] * 60 + parts[2]
        ELSE 0

formatTime_nopad(seconds) ==
    LET hours   == seconds \div 3600
        minutes == (seconds % 3600) \div 60
        secs    == seconds % 60
    IN  NatToString(hours) \o ":" \o NatToString(minutes) \o ":" \o NatToString(secs)

formatTime(seconds) ==
    LET hours   == seconds \div 3600
        minutes == (seconds % 3600) \div 60
        secs    == seconds % 60
    IN  NatToString(hours) \o ":" \o PadStart2(NatToString(minutes))
          \o ":" \o PadStart2(NatToString(secs))

-----------------------------------------------------------------------------
(* The helpers' specifications share the App's initial state. *)

NoOutput == [done |-> FALSE]

AppInit ==
    /\ videoUrl = ""
    /\ question = ""
    /\ messages = <<>>
    /\ loading = FALSE
    /\ videoId = ""
    /\ videoTitle = ""
    /\ timestamps = <<>>
    /\ error = ""
    /\ loadCalls = EmptyBag
    /\ chapterCalls = EmptyBag
    /\ askCalls = {}
    /\ nLoads = 0
    /\ nAsks = 0
    /\ lastLoad = "none"
    /\ lastAsk = "none"
    /\ notifications = <<>>
    /\ now = 0
    /\ timers = {}
    /\ handles = {}
    /\ nShown = 0
    /\ requests = <<>>
    /\ cache = <<>>

-----------------------------------------------------------------------------
(* formatTime / parseTimeToSeconds round trip *)

MaxSeconds == 4000
TimeStride == 97

\* 0..MaxSeconds covers every minute and the first hour boundary; the strided
\* values reach three-digit hours.
TimeInputs == (0..MaxSeconds) \cup {TimeStride * s : s \in 0..MaxSeconds}

TimeInit ==
    /\ AppInit
    /\ input \in TimeInputs
    /\ output = NoOutput

FormatAndParse ==
    /\ ~output.done
    /\ output' = [done |-> TRUE, text |-> formatTime(input),
                  back |-> parseTimeToSeconds(formatTime(input))]
    /\ UNCHANGED <<appVars, noteVars, serverVars, input>>

TimeNext == FormatAndParse

SpecTime == TimeInit /\ [][TimeNext]_vars

\* H:MM:SS with H unpadded (no leading zero unless it is "0"), MM and SS
\* two digits each, both below 60.
IsCanonicalHMS(s) ==
    LET p == Split(s, ":")
    IN  /\ Len(p) = 3
        /\ Len(p[1]) >= 1 /\ AllDigits(p[1])
        /\ (Len(p[1]) > 1 => Ch(p[1], 1) # "0")
        /\ Len(p[2]) = 2 /\ AllDigits(p[2]) /\ DigitsVal(p[2]) < 60
        /\ Len(p[3]) = 2 /\ AllDigits(p[3]) /\ DigitsVal(p[3]) < 60

\* C10: for every non-negative integer s, formatTime(s) is H:MM:SS with H
\* unpadded and MM, SS two digits below 60, and parseTimeToSeconds reads it
\* back as s.
C10_RoundTrip ==
    output.done => /\ IsCanonicalHMS(output.text)
                   /\ output.back = input

\* An input beyond 100 hours with single-digit minutes and seconds has been
\* formatted and parsed.
C10_Witness ==
    /\ output.done
    /\ input >= 360000
    /\ (input % 3600) \div 60 < 10
    /\ input % 60 \in 1..9

-----------------------------------------------------------------------------
(* getVideoId *)

\* The characters the capture group [^&\n?#]+ excludes.
IdStop == {"&", "\n", "?", "#"}

\* The longest run of characters outside IdStop that starts at index i.
RunEnd(s, i) ==
    IF \E j \in i..Len(s) : Ch(s, j) \in IdStop
    THEN (CHOOSE j \in i..Len(s) :
              Ch(s, j) \in IdStop /\ \A k \in i..(j - 1) : Ch(s, k) \notin IdStop) - 1
    ELSE Len(s)

\* url.match(/<lit>([^&\n?#]+)/): the positions where the literal is followed
\* by at least one captured character; the regular expression takes the
\* leftmost one.
MatchStarts(url, lit) ==
    {p \in 1..Len(url) :
        /\ p + Len(lit) <= Len(url)
        /\ SubSeq(url, p, p + Len(lit) - 1) = lit
        /\ Ch(url, p + Len(lit)) \notin IdStop}

Min(S) == CHOOSE x \in S : \A y \in S : x <= y

MatchGroup1(url, lit) ==
    LET p == Min(MatchStarts(url, lit))
    IN  SubSeq(url, p + Len(lit), RunEnd(url, p + Len(lit)))

patterns == <<"youtube.com/watch?v=", "youtu.be/", "youtube.com/embed/">>

NoId == [found |-> FALSE]

RECURSIVE FirstPattern(_, _)
FirstPattern(url, k) ==
    IF k > Len(patterns) THEN NoId
    ELSE IF MatchStarts(url, patterns[k]) # {}
         THEN [found |-> TRUE, id |-> MatchGroup1(url, patterns[k])]
         ELSE FirstPattern(url, k + 1)

getVideoId(url) == FirstPattern(url, 1)

-----------------------------------------------------------------------------
(* getVideoId on the URL forms of a video *)

VideoIds == {"dQw4w9WgXcQ", "a-b_1"}

UrlPrefixes == {"", "https://", "https://www.", "http://m."}

\* Query parameters and fragments that may follow the id.
WatchTrails == {"", "&t=10", "&list=PL1&index=2", "#t=5", "&t=10#top"}
PathTrails == {"", "?t=10", "?si=x&t=10", "#t=5", "?t=10#top"}

\* Query parameters that may precede v= in a watch URL.
WatchLeads == {"", "feature=share&", "app=desktop&"}

WatchUrls ==
    {[kind |-> "watch", v |-> v,
      url |-> pre \o "youtube.com/watch?" \o lead \o "v=" \o v \o trail] :
        pre \in UrlPrefixes, lead \in WatchLeads, v \in VideoIds, trail \in WatchTrails}

ShortUrls ==
    {[kind |-> "short", v |-> v, url |-> pre \o "youtu.be/" \o v \o trail] :
        pre \in {"", "https://"}, v \in VideoIds, trail \in PathTrails}

EmbedUrls ==
    {[kind |-> "embed", v |-> v, url |-> pre \o "youtube.com/embed/" \o v \o trail] :
        pre \in UrlPrefixes, v \in VideoIds, trail \in PathTrails}

OtherUrls ==
    {[kind |-> "other", v |-> "", url |-> u] :
        u \in {"", "not a url", "https://vimeo.com/12345",
               "https://www.youtube.com/playlist?list=PL1",
               "https://www.youtube.com/shorts/a-b_1",
               "https://example.com/watch?v=a-b_1"}}

UrlInputs == WatchUrls \cup ShortUrls \cup EmbedUrls \cup OtherUrls

UrlInit ==
    /\ AppInit
    /\ input \in UrlInputs
    /\ output = NoOutput

ExtractId ==
    /\ ~output.done
    /\ output' = [done |-> TRUE, id |-> getVideoId(input.url)]
    /\ UNCHANGED <<appVars, noteVars, serverVars, input>>

UrlNext == ExtractId

SpecUrl == UrlInit /\ [][UrlNext]_vars

\* C4: getVideoId returns the key v for the watch, short and embed form of
\* video v, further query parameters or a fragment included, and returns
\* null only for URLs that are none of these forms.
C4_Canonical ==
    output.done =>
        /\ input.kind \in {"watch", "short", "embed"} =>
              output.id = [found |-> TRUE, id |-> input.v]
        /\ ~output.id.found => input.kind = "other"

-----------------------------------------------------------------------------
(* createTimestampsFromTranscript *)

Whitespace == {" ", "\n", "\t"}

\* String.prototype.trim.
RECURSIVE TrimStart(_)
TrimStart(s) ==
    IF s # "" /\ Ch(s, 1) \in Whitespace THEN TrimStart(SubSeq(s, 2, Len(s))) ELSE s

RECURSIVE TrimEnd(_)
TrimEnd(s) ==
    IF s # "" /\ Ch(s, Len(s)) \in Whitespace
    THEN TrimEnd(SubSeq(s, 1, Len(s) - 1)) ELSE s

Trim(s) == TrimEnd(TrimStart(s))

UpperCase == "ABCDEFGHIJKLMNOPQRSTUVWXYZ"
LowerCase == "abcdefghijklmnopqrstuvwxyz"

LowerCh(c) ==
    IF \E i \in 1..Len(UpperCase) : Ch(UpperCase, i) = c
    THEN Ch(LowerCase, CHOOSE i \in 1..Len(UpperCase) : Ch(UpperCase, i) = c)
    ELSE c

\* String.prototype.toLowerCase.
RECURSIVE ToLowerCase(_)
ToLowerCase(s) ==
    IF s = "" THEN "" ELSE LowerCh(Ch(s, 1)) \o ToLowerCase(SubSeq(s, 2, Len(s)))

\* Whether s starts with lit, ignoring case (a regular expression's /^lit/i).
StartsWithI(s, lit) ==
    Len(s) >= Len(lit) /\ ToLowerCase(SubSeq(s, 1, Len(lit))) = lit

DropFirst(s, k) == SubSeq(s, k + 1, Len(s))

\* .replace(/^(welcome to|hello|hi there|today we|in this)/i, '')
LeadIns == <<"welcome to", "hello", "hi there", "today we", "in this">>

StripLeadIn(s) ==
    IF \E k \in 1..Len(LeadIns) : StartsWithI(s, LeadIns[k])
    THEN LET k == Min({j \in 1..Len(LeadIns) : StartsWithI(s, LeadIns[j])})
         IN  DropFirst(s, Len(LeadIns[k]))
    ELSE s

\* The number of digits at the start of s.
RECURSIVE DigitRun(_)
DigitRun(s) ==
    IF s # "" /\ IsDigit(Ch(s, 1)) THEN 1 + DigitRun(SubSeq(s, 2, Len(s))) ELSE 0

\* .replace(/^(fact|number|tip)( \d+)?:?/i, '')
Labels == <<"fact", "number", "tip">>

StripLabel(s) ==
    IF \E k \in 1..Len(Labels) : StartsWithI(s, Labels[k])
    THEN LET k     == Min({j \in 1..Len(Labels) : StartsWithI(s, Labels[j])})
             rest  == DropFirst(s, Len(Labels[k]))
             num   == IF rest # "" /\ Ch(rest, 1) = " "
                      THEN DigitRun(DropFirst(rest, 1)) ELSE 0
             rest2 == IF num > 0 THEN DropFirst(rest, 1 + num) ELSE rest
         IN  IF rest2 # "" /\ Ch(rest2, 1) = ":" THEN DropFirst(rest2, 1) ELSE rest2
    ELSE s

StopWords == {"the", "and", "but", "for", "are", "will", "can", "you", "your"}

\* Array.prototype.filter, keeping the words the chapter title may use.
RECURSIVE SignificantWords(_)
SignificantWords(ws) ==
    IF ws = <<>> THEN <<>>
    ELSE IF Len(Head(ws)) > 2 /\ ToLowerCase(Head(ws)) \notin StopWords
         THEN <<Head(ws)>> \o SignificantWords(Tail(ws))
         ELSE SignificantWords(Tail(ws))

\* Array.prototype.join(' ').
RECURSIVE Join(_)
Join(ws) ==
    IF ws = <<>> THEN ""
    ELSE IF Len(ws) = 1 THEN ws[1]
    ELSE ws[1] \o " " \o Join(Tail(ws))

FirstN(ws, k) == SubSeq(ws, 1, IF Len(ws) < k THEN Len(ws) ELSE k)

\* Lines 97-106: the chapter title derived from a segment's text.
ChapterTitle(text) ==
    Join(FirstN(SignificantWords(Split(StripLabel(StripLeadIn(Trim(text))), " ")), 3))

Max(a, b) == IF a >= b THEN a ELSE b

\* The mutant of SegmentsPerChapter: buckets of 50 segments whatever the length.
SegmentsPerChapter_fixed50(totalSegments) == 50

\* Line 90.
SegmentsPerChapter(totalSegments) == Max(50, totalSegments \div 15)

\* Lines 92-118: the chapters of the bucket heads, from 0-based index i on.
RECURSIVE BucketChapters(_, _)
BucketChapters(structuredData, i) ==
    IF i >= Len(structuredData) THEN <<>>
    ELSE LET segment      == structuredData[i + 1]
             chapterTitle == ChapterTitle(segment.text)
             here ==
                 IF segment.text # "" /\ segment.start_formatted # ""
                      /\ Len(chapterTitle) > 3
                 THEN <<[time    |-> segment.start_formatted,
                         title   |-> IF Len(chapterTitle) > 30
                                     THEN SubSeq(chapterTitle, 1, 27) \o "..."
                                     ELSE chapterTitle,
                         seconds |-> parseTimeToSeconds(segment.start_formatted)]>>
                 ELSE <<>>
         IN  here \o BucketChapters(structuredData,
                                    i + SegmentsPerChapter(Len(structuredData)))

\* Lines 120-131.
ConclusionChapter(structuredData) ==
    IF Len(structuredData) > 0
         /\ structuredData[Len(structuredData)].end_formatted # ""
    THEN <<[time    |-> structuredData[Len(structuredData)].end_formatted,
            title   |-> "Conclusion",
            seconds |-> parseTimeToSeconds(
                            structuredData[Len(structuredData)].end_formatted)]>>
    ELSE <<>>

\* The mutant: the conclusion is placed at the last segment's start.
StructuralChapters_conclusionAtStart(structuredData) ==
    BucketChapters(structuredData, 0) \o
    (IF Len(structuredData) > 0
     THEN <<[time    |-> structuredData[Len(structuredData)].start_formatted,
             title   |-> "Conclusion",
             seconds |-> parseTimeToSeconds(
                             structuredData[Len(structuredData)].start_formatted)]>>
     ELSE <<>>)

\* Lines 88-133: the list createTimestampsFromTranscript passes to setTimestamps.
StructuralChapters(structuredData) ==
    BucketChapters(structuredData, 0) \o ConclusionChapter(structuredData)

-----------------------------------------------------------------------------
(* createTimestampsFromTranscript on ordered transcripts *)

\* What a transcript segment says; the texts cover lead-ins, labels, stop
\* words, titles too short to make a chapter and titles beyond 30 characters.
SegmentTexts ==
    <<"Welcome to the channel everyone",
      "so",
      "Fact 3: honey never spoils",
      "",
      "Internationalization considerations notwithstanding everything",
      "and you can see the results here",
      "Today we compare three different engines">>

\* A transcript of n segments: segment i (0-based) starts at t0 + i * gap, lasts
\* dur seconds and says SegmentTexts[(i + shift) mod 7]; start_formatted and
\* end_formatted are the H:MM:SS renderings of start and end.
Transcript(n, t0, gap, dur, shift) ==
    [k \in 1..n |->
        [start           |-> t0 + (k - 1) * gap,
         end             |-> t0 + (k - 1) * gap + dur,
         text            |-> SegmentTexts[((k - 1 + shift) % Len(SegmentTexts)) + 1],
         start_formatted |-> formatTime(t0 + (k - 1) * gap),
         end_formatted   |-> formatTime(t0 + (k - 1) * gap + dur)]]

MaxSegments == 101

SegmentCounts == {0, 1, 2, 50, 51, MaxSegments}

Transcripts ==
    {Transcript(n, t0, gap, dur, shift) :
        n \in SegmentCounts, t0 \in {0, 3595}, gap \in {0, 1, 61},
        dur \in {1, 61}, shift \in 0..(Len(SegmentTexts) - 1)}

ChaptersInit ==
    /\ AppInit
    /\ input \in Transcripts
    /\ output = NoOutput

\* createTimestampsFromTranscript(structuredData), lines 84-136: the try block
\* completes for an array of segments, so the catch branch is not taken. Its
\* toasts write only the notifications cell.
CreateTimestampsFromTranscript ==
    /\ ~output.done
    /\ timestamps' = StructuralChapters(input)
    /\ output' = [done |-> TRUE]
    /\ UNCHANGED <<videoUrl, question, messages, loading, videoId, videoTitle,
                   error, loadCalls, chapterCalls, askCalls, nLoads, nAsks,
                   lastLoad, lastAsk, input, noteVars,
                   serverVars>>

ChaptersNext == CreateTimestampsFromTranscript

SpecChapters == ChaptersInit /\ [][ChaptersNext]_vars

NonDecreasing(chapters) ==
    \A i \in 1..(Len(chapters) - 1) : chapters[i].seconds <= chapters[i + 1].seconds

\* C2: for every transcript ordered by start with start < end, the structural
\* chapter list has non-decreasing seconds and ends with the 'Conclusion'
\* chapter, whose seconds is the last segment's end time. (For the empty
\* transcript, which has no last segment, the list is empty.)
C2_StructuralOrdered ==
    output.done =>
        IF Len(input) = 0 THEN timestamps = <<>>
        ELSE /\ NonDecreasing(timestamps)
             /\ Len(timestamps) >= 1
             /\ timestamps[Len(timestamps)].title = "Conclusion"
             /\ timestamps[Len(timestamps)].seconds = input[Len(input)].end

\* A transcript of more than two buckets crossing the hour boundary produced
\* at least two bucket chapters before the conclusion.
C2_Witness ==
    /\ output.done
    /\ Len(input) > 100
    /\ Len(timestamps) >= 3
    /\ timestamps[1].seconds < 3600
    /\ timestamps[Len(timestamps)].seconds > 3600
    /\ timestamps[Len(timestamps) - 1].seconds < timestamps[Len(timestamps)].seconds

-----------------------------------------------------------------------------
(* formatText *)

\* The character at index i, "" outside the string.
At(s, i) == IF i \in 1..Len(s) THEN Slice(s, i, i) ELSE ""

\* The last index of the run of characters other than '*' that starts at i
\* (i - 1 when the run is empty).
NonStarEnd(s, i) ==
    Min({j \in i..(Len(s) + 1) : j > Len(s) \/ At(s, j) = "*"} \cup {Len(s) + 1}) - 1

\* Length of the match of /\*\*([^*]+)\*\*/ at index p, 0 when there is none.
BoldLen(s, p) ==
    LET e == NonStarEnd(s, p + 2)
    IN  IF At(s, p) = "*" /\ At(s, p + 1) = "*" /\ e >= p + 2
             /\ At(s, e + 1) = "*" /\ At(s, e + 2) = "*"
        THEN e + 2 - p + 1 ELSE 0

\* Length of the match of /\*([^*]+)\*/ at index p, 0 when there is none.
ItalicLen(s, p) ==
    LET e == NonStarEnd(s, p + 1)
    IN  IF At(s, p) = "*" /\ e >= p + 1 /\ At(s, e + 1) = "*"
        THEN e + 1 - p + 1 ELSE 0

\* Length of the match of /\d{1,2}:\d{2}:\d{2}/ at index p, 0 when none.
HmsLen(s, p) ==
    LET h == IF IsDigit(At(s, p)) /\ IsDigit(At(s, p + 1)) /\ At(s, p + 2) = ":" THEN 2
             ELSE IF IsDigit(At(s, p)) /\ At(s, p + 1) = ":" THEN 1
             ELSE 0
    IN  IF h > 0 /\ IsDigit(At(s, p + h + 1)) /\ IsDigit(At(s, p + h + 2))
             /\ At(s, p + h + 3) = ":"
             /\ IsDigit(At(s, p + h + 4)) /\ IsDigit(At(s, p + h + 5))
        THEN h + 6 ELSE 0

\* Length of the match of /\((\d{1,2}):(\d{2}):(\d{2})\)/ at index p.
CitationLen(s, p) ==
    IF At(s, p) = "(" /\ HmsLen(s, p + 1) > 0
         /\ At(s, p + 1 + HmsLen(s, p + 1)) = ")"
    THEN HmsLen(s, p + 1) + 2 ELSE 0

PlaceholderOpen == "<span class=\"timestamp-placeholder\">"
PlaceholderClose == "</span>"

\* Length of the match of the split pattern (line 327) at index p.
PlaceholderLen(s, p) ==
    LET q == p + Len(PlaceholderOpen)
    IN  IF Slice(s, p, q - 1) = PlaceholderOpen
             /\ HmsLen(s, q) > 0
             /\ Slice(s, q + HmsLen(s, q),
                      q + HmsLen(s, q) + Len(PlaceholderClose) - 1) = PlaceholderClose
        THEN Len(PlaceholderOpen) + HmsLen(s, q) + Len(PlaceholderClose) ELSE 0

\* .replace(/\*\*([^*]+)\*\*/g, '<strong class="bold-text">$1</strong>')
\* (s is scanned from index p; the text before the next match is kept.)
RECURSIVE ReplaceBold(_, _)
ReplaceBold(s, p) ==
    LET found == {q \in p..Len(s) : BoldLen(s, q) > 0}
    IN  IF found = {} THEN Slice(s, p, Len(s))
        ELSE LET q == Min(found)
             IN  Slice(s, p, q - 1) \o "<strong class=\"bold-text\">"
                   \o Slice(s, q + 2, q + BoldLen(s, q) - 3) \o "</strong>"
                   \o ReplaceBold(s, q + BoldLen(s, q))

\* .replace(/\*([^*]+)\*/g, '<em class="italic-text">$1</em>')
RECURSIVE ReplaceItalic(_, _)
ReplaceItalic(s, p) ==
    LET found == {q \in p..Len(s) : ItalicLen(s, q) > 0}
    IN  IF found = {} THEN Slice(s, p, Len(s))
        ELSE LET q == Min(found)
             IN  Slice(s, p, q - 1) \o "<em class=\"italic-text\">"
                   \o Slice(s, q + 1, q + ItalicLen(s, q) - 2) \o "</em>"
                   \o ReplaceItalic(s, q + ItalicLen(s, q))

\* .replace(/\((\d{1,2}):(\d{2}):(\d{2})\)/g,
\*          '<span class="timestamp-placeholder">$1:$2:$3</span>')
RECURSIVE ReplaceCitations(_, _)
ReplaceCitations(s, p) ==
    LET found == {q \in p..Len(s) : CitationLen(s, q) > 0}
    IN  IF found = {} THEN Slice(s, p, Len(s))
        ELSE LET q == Min(found)
             IN  Slice(s, p, q - 1) \o PlaceholderOpen
                   \o Slice(s, q + 1, q + CitationLen(s, q) - 2) \o PlaceholderClose
                   \o ReplaceCitations(s, q + CitationLen(s, q))

\* .split(/<span class="timestamp-placeholder">(\d{1,2}:\d{2}:\d{2})<\/span>/):
\* the pieces between the matches, each match's capture group between them.
RECURSIVE SplitPlaceholders(_, _)
SplitPlaceholders(s, p) ==
    LET found == {q \in p..Len(s) : PlaceholderLen(s, q) > 0}
    IN  IF found = {} THEN <<Slice(s, p, Len(s))>>
        ELSE LET q == Min(found)
             IN  <<Slice(s, p, q - 1),
                   Slice(s, q + Len(PlaceholderOpen),
                         q + PlaceholderLen(s, q) - Len(PlaceholderClose) - 1)>>
                 \o SplitPlaceholders(s, q + PlaceholderLen(s, q))

\* Lines 330-353: a span for each non-empty even part, a button for each odd
\* part (i is the part's 0-based index).
RECURSIVE RenderParts(_, _)
RenderParts(parts, i) ==
    IF i >= Len(parts) THEN <<>>
    ELSE (IF i % 2 = 0
          THEN IF parts[i + 1] # ""
               THEN <<[kind |-> "span", html |-> parts[i + 1]]>> ELSE <<>>
          ELSE <<[kind |-> "button", label |-> parts[i + 1],
                  seconds |-> parseTimeToSeconds(parts[i + 1])]>>)
         \o RenderParts(parts, i + 1)

\* formatText(text) for a string: the rendered elements; the bare text when
\* there are none (line 355).
formatText(text) ==
    LET formattedText ==
            ReplaceCitations(ReplaceItalic(ReplaceBold(text, 1), 1), 1)
        result == RenderParts(SplitPlaceholders(formattedText, 1), 0)
    IN  IF Len(result) > 0 THEN result ELSE <<[kind |-> "text", html |-> text]>>

-----------------------------------------------------------------------------
(* formatText on answer texts *)

\* What an answer is made of: citations, near-citations, markdown, words and
\* the markup formatText itself uses for a citation.
AnswerPieces ==
    {"(0:02:30)", "(12:05:09)", "(0:99:07)", "(1:2:03)", "(100:00:00)",
     "0:01:00", "(0:59:59", "**key point**", "*", " see ", "\n",
     "<span class=\"timestamp-placeholder\">0:01:00</span>"}

MaxPieces == 3

RECURSIVE AnswerTexts(_)
AnswerTexts(k) ==
    IF k = 0 THEN {""}
    ELSE AnswerTexts(k - 1)
           \cup {t \o piece : t \in AnswerTexts(k - 1), piece \in AnswerPieces}

FormatInit ==
    /\ AppInit
    /\ input \in AnswerTexts(MaxPieces)
    /\ output = NoOutput

\* The render of one 'ai' message's text (line 476).
FormatText ==
    /\ ~output.done
    /\ output' = [done |-> TRUE, elements |-> formatText(input)]
    /\ UNCHANGED <<appVars, noteVars, serverVars, input>>

FormatNext == FormatText

SpecFormat == FormatInit /\ [][FormatNext]_vars

\* The citations of the form (H:MM:SS) embedded in a text, in order of
\* appearance, each with the seconds it names.
RECURSIVE Citations(_, _)
Citations(text, p) ==
    LET found == {q \in p..Len(text) : CitationLen(text, q) > 0}
    IN  IF found = {} THEN <<>>
        ELSE LET q   == Min(found)
                 hms == Split(Slice(text, q + 1, q + CitationLen(text, q) - 2), ":")
             IN  <<[label   |-> Slice(text, q + 1, q + CitationLen(text, q) - 2),
                    seconds |-> DigitsVal(hms[1]) * 3600 + DigitsVal(hms[2]) * 60
                                  + DigitsVal(hms[3])]>>
                 \o Citations(text, q + CitationLen(text, q))

RECURSIVE Buttons(_)
Buttons(elements) ==
    IF elements = <<>> THEN <<>>
    ELSE (IF Head(elements).kind = "button"
          THEN <<[label |-> Head(elements).label, seconds |-> Head(elements).seconds]>>
          ELSE <<>>) \o Buttons(Tail(elements))

\* C7: formatText yields exactly one button per embedded citation (H:MM:SS),
\* in order of appearance, jumping to H*3600 + MM*60 + SS, and no button for
\* any other text.
C7_ButtonsAreCitations ==
    output.done => Buttons(output.elements) = Citations(input, 1)

-----------------------------------------------------------------------------
(* generateAITimestamps: the chapter lines of an answer *)

\* The en dash (U+2013) of the line pattern's [-–] is written "~" here.
EnDash == "~"

\* The index after the run of whitespace that starts at i.
AfterSpaces(s, i) ==
    Min({j \in i..(Len(s) + 1) : At(s, j) \notin Whitespace})

\* The mutant of LineDashAt: the en dash is not accepted.
LineDashAt_hyphenOnly(line, p) ==
    LET d == AfterSpaces(line, p + HmsLen(line, p))
    IN  IF HmsLen(line, p) > 0 /\ At(line, d) = "-" /\ d < Len(line)
        THEN d ELSE 0

\* line.match(/(\d{1,2}):(\d{2}):(\d{2})\s*[-–]\s*(.+)/) at index p: the
\* index of the dash when the pattern matches there, 0 when it does not.
\* (.+) needs one character after the dash; \s* gives it back when the rest
\* of the line is whitespace only.
LineDashAt(line, p) ==
    LET d == AfterSpaces(line, p + HmsLen(line, p))
    IN  IF HmsLen(line, p) > 0 /\ At(line, d) \in {"-", EnDash} /\ d < Len(line)
        THEN d ELSE 0

\* .replace(/\*\*/g, '')
RECURSIVE RemoveDoubleStars(_, _)
RemoveDoubleStars(s, p) ==
    LET found == {q \in p..(Len(s) - 1) : At(s, q) = "*" /\ At(s, q + 1) = "*"}
    IN  IF found = {} THEN Slice(s, p, Len(s))
        ELSE Slice(s, p, Min(found) - 1) \o RemoveDoubleStars(s, Min(found) + 2)

\* The mutant of LineChapter: a long title keeps 40 characters before the
\* '...'.
LineChapter_cutAfter40(line) ==
    LET found == {p \in 1..Len(line) : LineDashAt(line, p) > 0}
    IN  IF found = {} THEN <<>>
        ELSE LET p       == Min(found)
                 hms     == Split(Slice(line, p, p + HmsLen(line, p) - 1), ":")
                 hours   == DigitsVal(hms[1])
                 minutes == DigitsVal(hms[2])
                 seconds == DigitsVal(hms[3])
                 title   == RemoveDoubleStars(
                                Trim(Slice(line, LineDashAt(line, p) + 1, Len(line))), 1)
             IN  <<[time    |-> NatToString(hours) \o ":"
                                  \o PadStart2(NatToString(minutes)) \o ":"
                                  \o PadStart2(NatToString(seconds)),
                    title   |-> IF Len(title) > 40
                                THEN Slice(title, 1, 40) \o "..." ELSE title,
                    seconds |-> hours * 3600 + minutes * 60 + seconds]>>

\* Lines 169-183: the chapter of one line, if the line has one.
LineChapter(line) ==
    LET found == {p \in 1..Len(line) : LineDashAt(line, p) > 0}
    IN  IF found = {} THEN <<>>
        ELSE LET p       == Min(found)
                 hms     == Split(Slice(line, p, p + HmsLen(line, p) - 1), ":")
                 hours   == DigitsVal(hms[1])
                 minutes == DigitsVal(hms[2])
                 seconds == DigitsVal(hms[3])
                 title   == RemoveDoubleStars(
                                Trim(Slice(line, LineDashAt(line, p) + 1, Len(line))), 1)
             IN  <<[time    |-> NatToString(hours) \o ":"
                                  \o PadStart2(NatToString(minutes)) \o ":"
                                  \o PadStart2(NatToString(seconds)),
                    title   |-> IF Len(title) > 40
                                THEN Slice(title, 1, 37) \o "..." ELSE title,
                    seconds |-> hours * 3600 + minutes * 60 + seconds]>>

RECURSIVE LineChapters(_)
LineChapters(lines) ==
    IF lines = <<>> THEN <<>>
    ELSE LineChapter(Head(lines)) \o LineChapters(Tail(lines))

\* Lines 165-184: newTimestamps, in line order.
AIChapters(answer) == LineChapters(Split(answer, "\n"))

-----------------------------------------------------------------------------
(* The App: inputs and server responses *)

MaxLoads == 1   \* /process-youtube requests
MaxAsks == 1    \* question requests

\* What the user may put in the URL field.
Urls == {"", "https://www.youtube.com/watch?v=vidA", "https://youtu.be/vidB"}

\* getVideoId on each of them.
VideoIdOf == [u \in Urls |-> getVideoId(u)]

\* What the user may put in the question field.
Questions == {"", "What color is the car?"}

\* String.prototype.trim on each of them.
Trimmed == [t \in Urls \cup Questions |-> Trim(t)]

TitleOf(url) == "Title of " \o VideoIdOf[url].id

\* The transcript the server extracted for a video (structured_data): two
\* segments for vidA, none for vidB.
TranscriptOf(url) ==
    IF VideoIdOf[url].id = "vidA" THEN Transcript(2, 0, 61, 61, 0)
    ELSE Transcript(0, 0, 1, 1, 0)

\* What createTimestampsFromTranscript makes of each video's transcript.
StructuralOf == [url \in Urls \ {""} |-> StructuralChapters(TranscriptOf(url))]

\* /process-youtube: {success, video_title?, error?}, or the fetch throws.
ProcessResponses(url) ==
    {[kind |-> "ok", video_title |-> TitleOf(url)],
     [kind |-> "ok", video_title |-> ""],
     [kind |-> "fail", error |-> "all transcript methods failed"],
     [kind |-> "throw", message |-> "Failed to fetch"]}

\* The answers to the chapter prompt: chapter lines in order, and chapter
\* lines out of order after a line that is none.
ChapterAnswers(url) ==
    {"0:00:00 - Introduction\n0:02:30 - About " \o VideoIdOf[url].id,
     "Chapters:\n0:05:00 ~ **Deep Dive**\n0:01:00 - About " \o VideoIdOf[url].id}

\* Lines 165-184 on each of them.
AIChaptersOf ==
    [a \in UNION {ChapterAnswers(url) : url \in Urls \ {""}} |-> AIChapters(a)]

\* /smart-question for the chapter prompt: {success, answer, video_title?},
\* or the fetch throws.
ChapterResponses(url) ==
    {[kind |-> "ok", answer |-> a, video_title |-> TitleOf(url)] :
        a \in ChapterAnswers(url)}
    \cup {[kind |-> "fail", error |-> "model error"],
          [kind |-> "throw", message |-> "Failed to fetch"]}

\* The values of method_used in the interface.
InterfaceMethods == {"TEXT", "VISUAL"}

\* /smart-question for a user's question: {success, answer?, method_used?,
\* error?}, or the fetch throws. "Visual Analysis" is the value line 473
\* tests for.
AskResponses ==
    {[kind |-> "ok", answer |-> "The car is red (0:02:30).", method_used |-> m] :
        m \in InterfaceMethods \cup {"Visual Analysis"}}
    \cup {[kind |-> "fail", error |-> "model error"],
          [kind |-> "throw", message |-> "Failed to fetch"]}

\* Line 278: what askQuestion appends to the user's question.
QuestionSuffix ==
    " Please include specific timestamps in your response using format (0:02:30) without extra words like 'around' or 'at'."

\* The question askQuestion sends for each thing the user may have typed.
QuestionSent == [q \in Questions |-> q \o QuestionSuffix]

\* Line 473.
Badge(method) == IF method = "Visual Analysis" THEN "Visual" ELSE "Text"

-----------------------------------------------------------------------------
(* The App: handlers. The toasts (showNotification, removeNotification) write
   only the notifications cell, which no handler reads. *)

\* The bag holding one call.
One(c) == SetToBag({c})

Init ==
    /\ AppInit
    /\ input = ""
    /\ output = NoOutput

\* onChange of the URL field (line 387).
SetVideoUrl(u) ==
    /\ u # videoUrl
    /\ videoUrl' = u
    /\ UNCHANGED <<question, messages, loading, videoId, videoTitle, timestamps,
                   error, loadCalls, chapterCalls, askCalls, nLoads, nAsks,
                   lastLoad, lastAsk, input, output, noteVars, serverVars>>

\* onChange of the question field (line 509); the field is disabled while
\* loading (line 511).
SetQuestion(q) ==
    /\ ~loading
    /\ q # question
    /\ question' = q
    /\ UNCHANGED <<videoUrl, messages, loading, videoId, videoTitle, timestamps,
                   error, loadCalls, chapterCalls, askCalls, nLoads, nAsks,
                   lastLoad, lastAsk, input, output, noteVars, serverVars>>

\* The error banner's close button (line 499).
DismissError ==
    /\ error # ""
    /\ error' = ""
    /\ UNCHANGED <<videoUrl, question, messages, loading, videoId, videoTitle,
                   timestamps, loadCalls, chapterCalls, askCalls, nLoads, nAsks,
                   lastLoad, lastAsk, input, output, noteVars, serverVars>>

\* loadVideo up to its first await (lines 200-220). The call keeps the
\* videoUrl and videoTitle of the render it was made in: generateAITimestamps
\* is later called with that videoUrl and reads that videoTitle.
\* limit bounds the number of requests made.
LoadVideoWithin(limit) ==
    IF ~VideoIdOf[videoUrl].found
    THEN /\ error' = "Please enter a valid YouTube URL"
         /\ UNCHANGED <<videoUrl, question, messages, loading, videoId, videoTitle,
                        timestamps, loadCalls, chapterCalls, askCalls, nLoads,
                        nAsks, lastLoad, lastAsk, input, output, noteVars, serverVars>>
    ELSE /\ nLoads < limit
         /\ videoId' = VideoIdOf[videoUrl].id
         /\ messages' = <<>>
         /\ timestamps' = <<>>
         /\ error' = ""
         /\ nLoads' = nLoads + 1
         /\ loadCalls' = loadCalls (+) One([url |-> videoUrl, videoTitle |-> videoTitle])
         /\ UNCHANGED <<videoUrl, question, loading, videoTitle, chapterCalls,
                        askCalls, nAsks, lastLoad, lastAsk, input, output, noteVars, serverVars>>

\* The Load Video button (lines 390-392), which is never disabled.
LoadVideo == LoadVideoWithin(MaxLoads)

\* The mutant of LoadVideoOk: the structural list is used when it has a
\* chapter, and generateAITimestamps is called only when it has none.
LoadVideoOk_fallback(c, data) ==
    /\ videoTitle' = IF data.video_title # "" THEN data.video_title ELSE "Unknown Video"
    /\ messages' = <<[type |-> "system",
                      content |-> "Video loaded! Ask questions about \""
                          \o (IF data.video_title # "" THEN data.video_title
                              ELSE "this video") \o "\"."]>>
    /\ IF StructuralOf[c.url] # <<>>
       THEN /\ timestamps' = StructuralOf[c.url]
            /\ UNCHANGED chapterCalls
       ELSE /\ chapterCalls' = chapterCalls (+) One(c)
            /\ UNCHANGED timestamps
    /\ UNCHANGED error

\* loadVideo after a response with success = true (lines 231-243):
\* generateAITimestamps(videoUrl) is called, whatever the transcript. The
\* system message's time of day is left out.
LoadVideoOk(c, data) ==
    /\ videoTitle' = IF data.video_title # "" THEN data.video_title ELSE "Unknown Video"
    /\ messages' = <<[type |-> "system",
                      content |-> "Video loaded! Ask questions about \""
                          \o (IF data.video_title # "" THEN data.video_title
                              ELSE "this video") \o "\"."]>>
    /\ chapterCalls' = chapterCalls (+) One(c)
    /\ UNCHANGED <<timestamps, error>>

\* loadVideo after a response with success = false (lines 224-229) or after
\* the fetch threw (lines 245-249).
LoadVideoFailed(c, data) ==
    /\ error' = IF data.kind = "fail"
                THEN "Could not extract transcript from this video"
                ELSE "Failed to connect to server"
    /\ UNCHANGED <<messages, videoTitle, timestamps, chapterCalls>>

\* loadVideo from its first await on (lines 222-249).
LoadVideoResponse ==
    \E c \in BagToSet(loadCalls) : \E data \in ProcessResponses(c.url) :
        /\ loadCalls' = loadCalls (-) One(c)
        /\ IF data.kind = "ok" THEN LoadVideoOk(c, data) ELSE LoadVideoFailed(c, data)
        /\ lastLoad' = IF data.kind = "ok" THEN "ok" ELSE "failed"
        /\ UNCHANGED <<videoUrl, question, loading, videoId, askCalls, nLoads,
                       nAsks, lastAsk, input, output, noteVars, serverVars>>

\* generateAITimestamps after a response with success = true (lines 160-188).
\* videoTitle is read from the render loadVideo was called in.
GenerateAITimestampsOk(c, data) ==
    /\ videoTitle' = IF data.video_title # "" /\ c.videoTitle = ""
                     THEN data.video_title ELSE videoTitle
    /\ timestamps' = AIChaptersOf[data.answer]

\* generateAITimestamps from its await on (lines 158-196); success = false
\* and a thrown fetch only show a toast.
GenerateAITimestampsResponse ==
    \E c \in BagToSet(chapterCalls) : \E data \in ChapterResponses(c.url) :
        /\ chapterCalls' = chapterCalls (-) One(c)
        /\ IF data.kind = "ok" THEN GenerateAITimestampsOk(c, data)
           ELSE UNCHANGED <<videoTitle, timestamps>>
        /\ UNCHANGED <<videoUrl, question, messages, loading, videoId, error,
                       loadCalls, askCalls, nLoads, nAsks, lastLoad, lastAsk,
                       input, output, noteVars, serverVars>>

\* askQuestion up to its await (lines 253-280). The call keeps what the user
\* typed and the body of its request.
AskQuestion ==
    IF Trimmed[question] = ""
    THEN /\ error' = "Please enter a question"
         /\ UNCHANGED <<videoUrl, question, messages, loading, videoId, videoTitle,
                        timestamps, loadCalls, chapterCalls, askCalls, nLoads,
                        nAsks, lastLoad, lastAsk, input, output, noteVars, serverVars>>
    ELSE IF Trimmed[videoUrl] = ""
    THEN /\ error' = "Please load a video first"
         /\ UNCHANGED <<videoUrl, question, messages, loading, videoId, videoTitle,
                        timestamps, loadCalls, chapterCalls, askCalls, nLoads,
                        nAsks, lastLoad, lastAsk, input, output, noteVars, serverVars>>
    ELSE /\ nAsks < MaxAsks
         /\ loading' = TRUE
         /\ error' = ""
         /\ messages' = Append(messages, [type |-> "user", content |-> question])
         /\ nAsks' = nAsks + 1
         /\ askCalls' = askCalls \cup
                {[call |-> nAsks + 1, typed |-> question,
                  body |-> [url |-> videoUrl, question |-> QuestionSent[question]]]}
         /\ UNCHANGED <<videoUrl, question, videoId, videoTitle, timestamps,
                        loadCalls, chapterCalls, nLoads, lastLoad, lastAsk, input,
                        output, noteVars, serverVars>>

\* The Ask button (lines 514-520), enabled as line 516 says.
ClickAsk ==
    /\ ~loading /\ Trimmed[question] # "" /\ videoId # ""
    /\ AskQuestion

\* handleKeyPress for Enter in the question field (lines 303-307, 510-511).
PressEnter ==
    /\ ~loading
    /\ AskQuestion

\* The mutant of AskQuestionSettled: a failure is shown as an answer.
AskQuestionSettled_downgraded(data) ==
    /\ messages' = Append(messages,
           [type    |-> "ai",
            content |-> IF data.kind = "ok" THEN data.answer
                        ELSE "Sorry, something went wrong.",
            method  |-> IF data.kind = "ok" THEN data.method_used ELSE "TEXT"])
    /\ UNCHANGED error

\* askQuestion after its await, before finally (lines 282-295).
AskQuestionSettled(data) ==
    IF data.kind = "ok"
    THEN /\ messages' = Append(messages, [type    |-> "ai",
                                          content |-> data.answer,
                                          method  |-> data.method_used])
         /\ UNCHANGED error
    ELSE /\ error' = IF data.kind = "fail" THEN "Failed: " \o data.error
                     ELSE "Connection error: " \o data.message
         /\ UNCHANGED messages

\* The mutant of AskQuestionResponse: the flag and the field are reset after
\* the try block instead of in finally, so not when the fetch threw.
AskQuestionResponse_noFinally ==
    \E c \in askCalls : \E data \in AskResponses :
        /\ askCalls' = askCalls \ {c}
        /\ AskQuestionSettled(data)
        /\ loading' = IF data.kind = "throw" THEN loading ELSE FALSE
        /\ question' = IF data.kind = "throw" THEN question ELSE ""
        /\ lastAsk' = IF data.kind = "ok" THEN "ok" ELSE "failed"
        /\ UNCHANGED <<videoUrl, videoId, videoTitle, timestamps, loadCalls,
                       chapterCalls, nLoads, nAsks, lastLoad, input, output, noteVars, serverVars>>

\* askQuestion from its await on (lines 282-299), finally included.
AskQuestionResponse ==
    \E c \in askCalls : \E data \in AskResponses :
        /\ askCalls' = askCalls \ {c}
        /\ AskQuestionSettled(data)
        /\ loading' = FALSE
        /\ question' = ""
        /\ lastAsk' = IF data.kind = "ok" THEN "ok" ELSE "failed"
        /\ UNCHANGED <<videoUrl, videoId, videoTitle, timestamps, loadCalls,
                       chapterCalls, nLoads, nAsks, lastLoad, input, output, noteVars, serverVars>>

Next ==
    \/ \E u \in Urls : SetVideoUrl(u)
    \/ \E q \in Questions : SetQuestion(q)
    \/ DismissError
    \/ LoadVideo
    \/ LoadVideoResponse
    \/ GenerateAITimestampsResponse
    \/ ClickAsk
    \/ PressEnter
    \/ AskQuestionResponse

Spec == Init /\ [][Next]_vars

-----------------------------------------------------------------------------
(* Chapter generation after a load *)

\* C1, as claimed: generateAITimestamps is invoked only for a video whose
\* structural list is empty, and a video's non-empty structural list is what
\* timestamps holds once it holds chapters.
C1_StructuralThenGenerative ==
    /\ \A c \in BagToSet(chapterCalls) : StructuralOf[c.url] = <<>>
    /\ \A url \in Urls \ {""} :
           (/\ timestamps # <<>>
            /\ VideoIdOf[url].id = videoId
            /\ StructuralOf[url] # <<>>) => timestamps = StructuralOf[url]

\* The lists generateAITimestamps can store.
GenerativeLists == {AIChaptersOf[a] : a \in DOMAIN AIChaptersOf}

\* C1, amended: every successful /process-youtube response makes loadVideo
\* invoke generateAITimestamps for its URL, whatever the structural list of
\* that video, and leaves timestamps alone; timestamps only ever changes to
\* the empty list or to a list parsed from a generative answer.
C1_AlwaysGenerative ==
    [][/\ (lastLoad' = "ok" /\ BagCardinality(loadCalls') < BagCardinality(loadCalls)) =>
              /\ \E c \in BagToSet(loadCalls) :
                     /\ loadCalls' = loadCalls (-) One(c)
                     /\ chapterCalls' = chapterCalls (+) One(c)
              /\ timestamps' = timestamps
       /\ timestamps' # timestamps => timestamps' \in {<<>>} \cup GenerativeLists]_vars

\* generateAITimestamps has been invoked after a successful load of a video
\* whose structural list has chapters.
C1_Witness ==
    /\ lastLoad = "ok"
    /\ \E c \in BagToSet(chapterCalls) : Len(StructuralOf[c.url]) >= 2

\* C3: the chapter list generateAITimestamps stores is sorted by seconds
\* ascending, whatever the order of the answer's chapter lines.
C3_GenerativeSorted ==
    NonDecreasing(timestamps)

-----------------------------------------------------------------------------
(* Questions *)

\* The last message is an 'ai' message.
EndsWithAi(msgs) ==
    Len(msgs) >= 1 /\ msgs[Len(msgs)].type = "ai"

\* C5: when the question request settles, an 'ai' message is appended exactly
\* when the response had success = true; otherwise error becomes non-empty
\* and messages is left as it was.
C5_FailureSurfaced ==
    [][(askCalls # {} /\ askCalls' = {}) =>
           IF lastAsk' = "ok"
           THEN /\ Len(messages') = Len(messages) + 1
                /\ EndsWithAi(messages')
                /\ SubSeq(messages', 1, Len(messages)) = messages
           ELSE /\ error' # ""
                /\ messages' = messages]_vars

\* A question request has failed: the error is shown and the user's question
\* is the last message.
C5_Witness ==
    /\ lastAsk = "failed"
    /\ askCalls = {}
    /\ error # ""
    /\ Len(messages) >= 1
    /\ messages[Len(messages)].type = "user"

\* C6: from a failed load until a load succeeds, no step sends a question
\* request.
C6_FailedLoadBlocksQuestions ==
    [][lastLoad = "failed" => askCalls' \subseteq askCalls]_vars

\* C8: an answer whose method_used is "VISUAL" carries the Visual badge and
\* one whose method_used is "TEXT" carries the Text badge.
C8_BadgeReflectsMethod ==
    \A i \in 1..Len(messages) :
        messages[i].type = "ai" =>
            /\ messages[i].method = "VISUAL" => Badge(messages[i].method) = "Visual"
            /\ messages[i].method = "TEXT" => Badge(messages[i].method) = "Text"

\* A time of the form M:SS or H:MM:SS occurs in the text.
MentionsTimestamp(s) ==
    \E i \in 1..Len(s) :
        /\ IsDigit(Ch(s, i))
        /\ Ch(s, i + 1) = ":"
        /\ IsDigit(Ch(s, i + 2))
        /\ IsDigit(Ch(s, i + 3))

\* C9: the question text of a request holds a timestamp only if what the
\* user typed holds one.
C9_NoTimestampUnlessMentioned ==
    \A c \in askCalls :
        MentionsTimestamp(c.body.question) => MentionsTimestamp(c.typed)

-----------------------------------------------------------------------------
(* The server's video processing, as README.md sketches it: the cache of
   "Smart Caching Logic" and the 3-layer fallback of "Transcript
   Reliability". Requests are handled concurrently. *)

MaxRequests == 2    \* process_video calls

\* The extraction methods, in the order process_youtube_video tries them:
\* try_youtube_api, try_ytdlp_captions, try_whisper.
Methods == <<"API", "CAPTION_FILE", "SPEECH_MODEL">>

NoResult == [success |-> FALSE, method_used |-> "none"]

\* process_video(url) is called: a /process-youtube request arrives.
ProcessVideoCall(url) ==
    /\ Len(requests) < MaxRequests
    /\ requests' = Append(requests, [url |-> url, pc |-> "check",
                                     attempts |-> <<>>, result |-> NoResult])
    /\ UNCHANGED <<appVars, noteVars, cache, input, output>>

\* "if url in cache: return cache[url]"; otherwise processing starts.
CheckCache(r) ==
    /\ requests[r].pc = "check"
    /\ requests' = [requests EXCEPT ![r] =
           IF requests[r].url \in DOMAIN cache
           THEN [@ EXCEPT !.pc = "done", !.result = cache[requests[r].url]]
           ELSE [@ EXCEPT !.pc = "extract"]]
    /\ UNCHANGED <<appVars, noteVars, cache, input, output>>

\* The mutant of TryMethod: the result of a method is not returned at once,
\* the later methods run too.
TryMethod_noEarlyReturn(r, ok) ==
    /\ requests[r].pc = "extract"
    /\ LET k == Len(requests[r].attempts) + 1
       IN  requests' = [requests EXCEPT ![r] =
               [@ EXCEPT !.attempts = Append(@, [method |-> Methods[k], ok |-> ok]),
                         !.pc = IF k = Len(Methods) THEN "store" ELSE "extract",
                         !.result = IF ok
                                    THEN [success |-> TRUE, method_used |-> Methods[k]]
                                    ELSE @]]
    /\ UNCHANGED <<appVars, noteVars, cache, input, output>>

\* process_youtube_video, one method: the next method of the chain is tried;
\* "if result: return result", and the last method's result is returned as
\* it is.
TryMethod(r, ok) ==
    /\ requests[r].pc = "extract"
    /\ LET k == Len(requests[r].attempts) + 1
       IN  requests' = [requests EXCEPT ![r] =
               [@ EXCEPT !.attempts = Append(@, [method |-> Methods[k], ok |-> ok]),
                         !.pc = IF ok \/ k = Len(Methods) THEN "store" ELSE "extract",
                         !.result = IF ok
                                    THEN [success |-> TRUE, method_used |-> Methods[k]]
                                    ELSE NoResult]]
    /\ UNCHANGED <<appVars, noteVars, cache, input, output>>

\* "cache[url] = {transcript, frames, metadata}; return cache[url]".
StoreInCache(r) ==
    /\ requests[r].pc = "store"
    /\ cache' = [u \in DOMAIN cache \cup {requests[r].url} |->
                    IF u = requests[r].url THEN requests[r].result ELSE cache[u]]
    /\ requests' = [requests EXCEPT ![r].pc = "done"]
    /\ UNCHANGED <<appVars, noteVars, input, output>>

ServerNext ==
    \/ \E url \in Urls \ {""} : ProcessVideoCall(url)
    \/ \E r \in DOMAIN requests : CheckCache(r)
    \/ \E r \in DOMAIN requests : \E ok \in BOOLEAN : TryMethod(r, ok)
    \/ \E r \in DOMAIN requests : StoreInCache(r)

SpecServer == Init /\ [][ServerNext]_vars

\* The calls for a video that ran the extraction chain.
Extracted(url) ==
    {r \in DOMAIN requests : requests[r].url = url /\ requests[r].attempts # <<>>}

\* The calls for a video that have returned.
Returned(url) ==
    {r \in DOMAIN requests : requests[r].url = url /\ requests[r].pc = "done"}

\* C11: for every video the extraction chain runs at most once, exactly once
\* when a call for it has returned, and all the calls for it that have
\* returned hold the same result.
C11_SingleFlight ==
    \A url \in Urls \ {""} :
        /\ Cardinality(Extracted(url)) <= 1
        /\ Returned(url) # {} => Cardinality(Extracted(url)) = 1
        /\ \A r1, r2 \in Returned(url) : requests[r1].result = requests[r2].result

-----------------------------------------------------------------------------
(* The two chapter strategies on transcripts and on answers *)

MaxLines == 3   \* lines of an answer

\* Lines an answer to the chapter prompt may hold: the line, whether it
\* holds a time, a dash and a title, and that title without its `**`.
AnswerLines ==
    {[text |-> "0:00:00 - Introduction", chapter |-> TRUE, title |-> "Introduction"],
     [text |-> "0:02:30 " \o EnDash \o " Main Topic", chapter |-> TRUE,
      title |-> "Main Topic"],
     [text |-> "Here are the chapters:", chapter |-> FALSE, title |-> ""],
     [text |-> "12:05:09-**Deep Dive** into **things**", chapter |-> TRUE,
      title |-> "Deep Dive into things"],
     [text |-> "3. 0:75:90 - Overflowing minutes and seconds", chapter |-> TRUE,
      title |-> "Overflowing minutes and seconds"],
     [text |-> "1:10:00 - A very long chapter title that goes beyond forty characters",
      chapter |-> TRUE,
      title |-> "A very long chapter title that goes beyond forty characters"],
     [text |-> "1:2:03 - Malformed time", chapter |-> FALSE, title |-> ""],
     [text |-> "0:05:00 - ", chapter |-> TRUE, title |-> ""],
     [text |-> "0:07:00 -", chapter |-> FALSE, title |-> ""]}

\* The answers of up to k lines.
RECURSIVE AnswersOf(_)
AnswersOf(k) ==
    IF k = 0 THEN {<<>>}
    ELSE AnswersOf(k - 1) \cup
         {Append(a, l) : a \in {b \in AnswersOf(k - 1) : Len(b) = k - 1},
                         l \in AnswerLines}

\* data.answer: the lines joined by "\n".
RECURSIVE AnswerText(_)
AnswerText(lines) ==
    IF lines = <<>> THEN ""
    ELSE IF Len(lines) = 1 THEN lines[1].text
    ELSE lines[1].text \o "\n" \o AnswerText(Tail(lines))

StrategyInputs ==
    {[strategy |-> "structural", structuredData |-> Transcript(n, 0, 61, 61, shift)] :
        n \in {1, 51, MaxSegments}, shift \in 0..(Len(SegmentTexts) - 1)}
    \cup {[strategy |-> "generative", lines |-> a] : a \in AnswersOf(MaxLines)}

StrategiesInit ==
    /\ AppInit
    /\ input \in StrategyInputs
    /\ output = NoOutput

\* createTimestampsFromTranscript(structuredData), lines 84-136.
StructuralStrategy ==
    /\ ~output.done
    /\ input.strategy = "structural"
    /\ timestamps' = StructuralChapters(input.structuredData)
    /\ output' = [done |-> TRUE]
    /\ UNCHANGED <<videoUrl, question, messages, loading, videoId, videoTitle,
                   error, loadCalls, chapterCalls, askCalls, nLoads, nAsks,
                   lastLoad, lastAsk, input, noteVars, serverVars>>

\* generateAITimestamps on data.answer, lines 165-186.
GenerativeStrategy ==
    /\ ~output.done
    /\ input.strategy = "generative"
    /\ timestamps' = AIChapters(AnswerText(input.lines))
    /\ output' = [done |-> TRUE]
    /\ UNCHANGED <<videoUrl, question, messages, loading, videoId, videoTitle,
                   error, loadCalls, chapterCalls, askCalls, nLoads, nAsks,
                   lastLoad, lastAsk, input, noteVars, serverVars>>

StrategiesNext == StructuralStrategy \/ GenerativeStrategy

SpecStrategies == StrategiesInit /\ [][StrategiesNext]_vars

\* C13: every stored chapter's time is the canonical H:MM:SS rendering of its
\* seconds.
C13_TimeIsRenderingOfSeconds ==
    \A k \in 1..Len(timestamps) :
        /\ IsCanonicalHMS(timestamps[k].time)
        /\ timestamps[k].seconds \in Nat
        /\ timestamps[k].time = formatTime(timestamps[k].seconds)

\* C14, as claimed: every stored chapter title has at most 30 characters.
C14_TitlesAtMost30 ==
    \A k \in 1..Len(timestamps) : Len(timestamps[k].title) <= 30

\* A title cut to a bound: its first bound - 3 characters and '...'.
Cut(title, bound) ==
    IF Len(title) > bound THEN SubSeq(title, 1, bound - 3) \o "..." ELSE title

\* The titles lines 97-106 are to derive from the texts of SegmentTexts
\* (none for "so" and for the empty text).
SegmentTitles ==
    {"channel everyone", "honey never spoils",
     "Internationalization considerations notwithstanding",
     "see results here", "compare three different"}

\* The lines of an answer that hold a chapter.
ChapterLines(lines) == SelectSeq(lines, LAMBDA l : l.chapter)

\* C14, amended: a title of the structural strategy is 'Conclusion' or a
\* segment's title cut to 30 characters, and the titles of the generative
\* strategy are the titles of the chapter lines cut to 40 characters; a cut
\* title has exactly the bound's length and ends with '...'.
C14_TitlesBounded ==
    output.done =>
        IF input.strategy = "structural"
        THEN \A k \in 1..Len(timestamps) :
                 /\ Len(timestamps[k].title) <= 30
                 /\ timestamps[k].title \in
                        {"Conclusion"} \cup {Cut(t, 30) : t \in SegmentTitles}
        ELSE /\ Len(timestamps) = Len(ChapterLines(input.lines))
             /\ \A k \in 1..Len(timestamps) :
                    /\ Len(timestamps[k].title) <= 40
                    /\ timestamps[k].title = Cut(ChapterLines(input.lines)[k].title, 40)

\* Both strategies have cut a title: the generative one in the state itself,
\* whose list holds a 40-character title ending with '...'.
C14_Witness ==
    /\ output.done
    /\ input.strategy = "generative"
    /\ \E k \in 1..Len(timestamps) :
           /\ Len(timestamps[k].title) = 40
           /\ SubSeq(timestamps[k].title, 38, 40) = "..."
    /\ \E k \in 1..Len(timestamps) : Len(timestamps[k].title) \in 31..39

\* `**` occurs in the text.
HasDoubleStar(s) ==
    \E i \in 1..(Len(s) - 1) : Ch(s, i) = "*" /\ Ch(s, i + 1) = "*"

\* The text begins with the prefix.
BeginsWith(s, prefix) ==
    Len(s) >= Len(prefix) /\ SubSeq(s, 1, Len(prefix)) = prefix

-----------------------------------------------------------------------------
(* createTimestampsFromTranscript: the buckets *)

MaxBucketSegments == 1515

\* A transcript of n segments in which every segment makes a chapter: segment
\* i (0-based) starts at second i and lasts one second, so that a chapter's
\* seconds is the index of the segment it was taken from.
NumberedTranscript(n) ==
    [k \in 1..n |->
        [start           |-> k - 1,
         end             |-> k,
         text            |-> "Fact 3: honey never spoils",
         start_formatted |-> formatTime(k - 1),
         end_formatted   |-> formatTime(k)]]

\* Segment counts around the multiples of 50 (the least bucket size) and, from
\* 750 on, around the multiples of 15.
BucketCounts ==
    {n \in 1..MaxBucketSegments :
        \/ n % 50 \in {0, 1, 49}
        \/ n >= 750 /\ n % 15 \in {0, 1, 14}}

BucketsInit ==
    /\ AppInit
    /\ input \in {NumberedTranscript(n) : n \in BucketCounts}
    /\ output = NoOutput

SpecBuckets == BucketsInit /\ [][ChaptersNext]_vars

\* C16: n >= 1 segments are cut into buckets of size b = max(50, floor(n/15))
\* with heads at indices 0, b, 2b, ...; the number of buckets is ceil(n/b), it
\* is 15 or 16 whenever n >= 750, and the chapter list (one chapter per bucket
\* head plus 'Conclusion') never has more than 17 entries.
C16_Buckets ==
    output.done =>
        LET n       == Len(input)
            b       == IF n \div 15 > 50 THEN n \div 15 ELSE 50
            buckets == Len(timestamps) - 1
        IN  /\ buckets = (n + b - 1) \div b
            /\ \A k \in 1..buckets : timestamps[k].seconds = (k - 1) * b
            /\ timestamps[Len(timestamps)].title = "Conclusion"
            /\ n >= 750 => buckets \in {15, 16}
            /\ Len(timestamps) <= 17

\* The buckets of a long transcript have been taken: 16 of them, and the
\* conclusion.
C16_Witness ==
    /\ output.done
    /\ Len(input) >= 750
    /\ Len(timestamps) = 17
    /\ timestamps[16].seconds = 15 * (Len(input) \div 15)

-----------------------------------------------------------------------------
(* Loading a video while another load is under way *)

MaxReloads == 2   \* /process-youtube requests when the button is clicked again

\* The Load Video button, clicked again.
LoadVideoAgain == LoadVideoWithin(MaxReloads)

ReloadNext ==
    \/ \E u \in Urls : SetVideoUrl(u)
    \/ \E q \in Questions : SetQuestion(q)
    \/ DismissError
    \/ LoadVideoAgain
    \/ LoadVideoResponse
    \/ GenerateAITimestampsResponse
    \/ ClickAsk
    \/ PressEnter
    \/ AskQuestionResponse

SpecReload == Init /\ [][ReloadNext]_vars

\* No /process-youtube request and no chapter request is pending.
AllLoadsResolved == loadCalls = EmptyBag /\ chapterCalls = EmptyBag

\* The chapter lists an answer to the chapter prompt can give for the video
\* shown in the player.
ChaptersOfShownVideo ==
    {AIChaptersOf[a] : a \in UNION {ChapterAnswers(url) :
                                      url \in {u \in Urls \ {""} :
                                                  VideoIdOf[u].id = videoId}}}

\* C17: once every load request has resolved, the chapters in timestamps are
\* those generated for the video shown in the player (videoId), never those
\* of a video loaded earlier.
C17_ChaptersOfShownVideo ==
    (AllLoadsResolved /\ timestamps # <<>>) => timestamps \in ChaptersOfShownVideo

-----------------------------------------------------------------------------
(* Answers and the chat they arrive in *)

\* C18: each 'ai' message is preceded in messages by the 'user' message of
\* the question it answers; an answer to a question asked before the last
\* loadVideo reset never appears in the chat of the newly loaded video.
C18_AnswerFollowsItsQuestion ==
    \A i \in 1..Len(messages) :
        messages[i].type = "ai" =>
            \E j \in 1..(i - 1) : messages[j].type = "user"

-----------------------------------------------------------------------------
(* The notification system (lines 29-46) *)

MaxNotifications == 3   \* showNotification calls
MaxTicks == 3           \* advances of the clock

\* Line 37: the delay of the timeout that removes a notification.
NotificationTimeout == 4000

\* The calls the handlers make: (message, type, persistent) of lines 213,
\* 232, 146 and 188.
Toasts ==
    {[message |-> "Loading video and extracting transcript",
      type |-> "loading", persistent |-> TRUE],
     [message |-> "Video transcript extracted successfully!",
      type |-> "success", persistent |-> FALSE],
     [message |-> "Generating timestamps...",
      type |-> "loading", persistent |-> TRUE],
     [message |-> "Timestamps generated!",
      type |-> "success", persistent |-> FALSE]}

\* prev.filter(n => n.id !== id), lines 36 and 44.
RECURSIVE WithoutId(_, _)
WithoutId(prev, id) ==
    IF prev = <<>> THEN <<>>
    ELSE (IF Head(prev).id # id THEN <<Head(prev)>> ELSE <<>>)
         \o WithoutId(Tail(prev), id)

\* showNotification(message, type, persistent), lines 29-41: the id is the
\* clock's reading. The callers keep the id of a persistent notification to
\* remove it later, and drop the id of any other.
ShowNotification(t) ==
    /\ nShown < MaxNotifications
    /\ nShown' = nShown + 1
    /\ notifications' = Append(notifications,
           [id |-> now, message |-> t.message, type |-> t.type,
            persistent |-> t.persistent])
    /\ timers' = IF ~t.persistent
                 THEN timers \cup {[id |-> now, due |-> now + NotificationTimeout,
                                    call |-> nShown + 1]}
                 ELSE timers
    /\ handles' = IF t.persistent
                  THEN handles \cup {[id |-> now, call |-> nShown + 1]}
                  ELSE handles
    /\ UNCHANGED <<now, appVars, input, output, serverVars>>

\* removeNotification(id), lines 43-45, by a caller holding the id.
RemoveNotification(h) ==
    /\ h \in handles
    /\ notifications' = WithoutId(notifications, h.id)
    /\ handles' = handles \ {h}
    /\ UNCHANGED <<now, timers, nShown, appVars, input, output, serverVars>>

\* The timeout's callback (lines 35-37), once its delay has passed.
TimeoutFires(t) ==
    /\ t \in timers
    /\ t.due <= now
    /\ notifications' = WithoutId(notifications, t.id)
    /\ timers' = timers \ {t}
    /\ UNCHANGED <<now, handles, nShown, appVars, input, output, serverVars>>

\* The clock advances, by a millisecond or by the delay of the timeout.
Tick(d) ==
    /\ (now \div NotificationTimeout) + (now % NotificationTimeout) < MaxTicks
    /\ now' = now + d
    /\ UNCHANGED <<notifications, timers, handles, nShown, appVars, input,
                   output, serverVars>>

NotificationsNext ==
    \/ \E t \in Toasts : ShowNotification(t)
    \/ \E h \in handles : RemoveNotification(h)
    \/ \E t \in timers : TimeoutFires(t)
    \/ \E d \in {1, NotificationTimeout} : Tick(d)

SpecNotifications == Init /\ [][NotificationsNext]_vars

\* C19: a removal, by removeNotification(id) or by the timeout, removes
\* exactly the one notification it was created for: no step takes more than
\* one notification away, also when two were shown in the same millisecond.
C19_RemovalIsolated ==
    [][Len(notifications') >= Len(notifications) - 1]_vars

-----------------------------------------------------------------------------
(* The loading flag *)

\* The fetch of a question request settles: it resolves or it throws.
FairSpec == Spec /\ WF_vars(AskQuestionResponse)

-----------------------------------------------------------------------------
(* The video a question is about *)

\* C21: every question request askQuestion sends is about the video shown in
\* the player: at the step that sends it, videoId is not empty and
\* getVideoId of the url sent is videoId.
C21_QuestionAboutShownVideo ==
    [][\A c \in askCalls' \ askCalls :
          /\ videoId' # ""
          /\ VideoIdOf[c.body.url].found
          /\ VideoIdOf[c.body.url].id = videoId']_vars

-----------------------------------------------------------------------------
(* The title in the chat header, for loads made one after the other *)

\* The Load Video button, clicked only once every earlier loadVideo has
\* resolved (its chapter request included, which loadVideo awaits, line 243).
LoadVideoAfterResolved ==
    /\ AllLoadsResolved
    /\ LoadVideoWithin(MaxReloads)

SerialNext ==
    \/ \E u \in Urls : SetVideoUrl(u)
    \/ \E q \in Questions : SetQuestion(q)
    \/ DismissError
    \/ LoadVideoAfterResolved
    \/ LoadVideoResponse
    \/ GenerateAITimestampsResponse
    \/ ClickAsk
    \/ PressEnter
    \/ AskQuestionResponse

SpecSerial == Init /\ [][SerialNext]_vars

\* What the chat header (lines 432-435) may show for the video in the player:
\* nothing, the placeholder of line 234, or a title the server gives for it.
TitlesOfShownVideo ==
    {"", "Unknown Video"}
    \cup {TitleOf(u) : u \in {v \in Urls \ {""} : VideoIdOf[v].id = videoId}}

\* C22: when the loads are made one after the other, then once they have
\* resolved videoTitle is the title of the video in the player (videoId) or a
\* placeholder, never the title of a video loaded before; a failed load does
\* not leave the previous video's title displayed.
C22_TitleOfShownVideo ==
    AllLoadsResolved => videoTitle \in TitlesOfShownVideo

====
